---------------------------- MODULE Spec2Model ----------------------------
(***************************************************************************)
(* Model of the classroom journal application (src/app.py).                *)
(*                                                                         *)
(* The database tables are sequences of rows; a row's primary key is its   *)
(* position in the sequence (auto-increment ids, rows are never deleted).  *)
(* A nullable column holds a set: {} is NULL, {v} is the value v.          *)
(*                                                                         *)
(* A worker of the web server receives a request (Receive puts it in       *)
(* req[w]), runs its handler, one action per handler, which changes the    *)
(* tables and leaves the HTTP response in resp[w], and sends the response  *)
(* (Respond).  The two handlers that look a row up before they insert it   *)
(* (join_group, submit_assignment) are also given in two steps, lookup and *)
(* insert, for the specification in which two workers serve requests at    *)
(* once.                                                                   *)
(*                                                                         *)
(* Grades are fixed-point numbers: request values in thousandths, the      *)
(* Numeric(5,2) column in hundredths.                                      *)
(*                                                                         *)
(* profiles is the set of files in the upload folder static/uploads/       *)
(* profiles, each named by the path a users row stores for it; the         *)
(* timestamp save_file puts in front of a stored name is left out.  now is *)
(* the database clock in days, the value of a created_at column.           *)
(***************************************************************************)
EXTENDS Integers, Sequences, FiniteSets, TLC

VARIABLES users, groups, members, assignments, submissions, req, pc, loc, resp,
          log_entries, feedbacks, profiles, now

vars == <<users, groups, members, assignments, submissions, req, pc, loc, resp,
          log_entries, feedbacks, profiles, now>>

-----------------------------------------------------------------------------
(* Bounds of the model *)

\* rows of the users table
MaxUsers == 3

\* rows of the groups table
MaxGroups == 2

\* rows of the group_members table
MaxMembers == 2

\* rows of the assignments table
MaxAssignments == 1

\* rows of the submissions table
MaxSubmissions == 2

\* workers of the web server
NumWorkers == 2

\* rows of the log_entries table
MaxLogs == 2

\* rows of the feedbacks table
MaxFeedbacks == 2

\* the last day of the clock
MaxDay == 3

-----------------------------------------------------------------------------
(* Values *)

\* request.form.get(...) / data.get(...) of a field the request does not carry
Absent == "<absent>"

Methods == {"GET", "POST"}

\* User.role: db.Enum('admin', 'teacher', 'student')
Roles == {"admin", "teacher", "student"}

\* Query.first() over the ids a filter_by selected: the lowest id, 0 (None) if none
First(ids) == IF ids = {} THEN 0 ELSE CHOOSE i \in ids : \A j \in ids : i <= j

\* An HTTP response: the handler, the status code and the flashed / JSON message
Reply(op, code, msg) == [op |-> op, code |-> code, msg |-> msg]

NoResponse == Reply("none", 0, "")

NoRequest == [op |-> "none"]

Workers == 1..NumWorkers

\* what a handler keeps between its lookup and its insert
NoLocals == [target |-> 0]

\* the days of the clock
Days == 1..MaxDay

Ten == "0123456789"

\* a text of exactly 100 characters
Hundred == Ten \o Ten \o Ten \o Ten \o Ten \o Ten \o Ten \o Ten \o Ten \o Ten

\* the bodies users type: 5, 100 and 101 characters
Texts == {"notes", Hundred, Hundred \o "!"}

-----------------------------------------------------------------------------
(* Uploaded files *)

NoUpload == [present |-> FALSE, stem |-> "", dot |-> FALSE, ext |-> ""]

EmptyUpload == [present |-> TRUE, stem |-> "", dot |-> FALSE, ext |-> ""]

Upload(stem, ext) == [present |-> TRUE, stem |-> stem, dot |-> TRUE, ext |-> ext]

\* file.filename != ''
HasFilename(file) == file.stem # "" \/ file.dot

\* str.lower() on the extensions the model uses
lower(ext) == IF ext = "PDF" THEN "pdf" ELSE IF ext = "PNG" THEN "png" ELSE ext

ALLOWED_EXTENSIONS == {"png", "jpg", "jpeg", "gif", "pdf", "doc", "docx", "pptx"}

allowed_file(file) == file.dot /\ lower(file.ext) \in ALLOWED_EXTENSIONS

\* save_file: {} (None) when the upload is refused, else the stored relative path
save_file(file, subfolder) ==
    IF file.present /\ HasFilename(file) /\ allowed_file(file)
    THEN {[folder |-> subfolder, stem |-> file.stem, ext |-> file.ext]}
    ELSE {}

-----------------------------------------------------------------------------
(* The worker loop *)

\* worker w takes request r off the wire
Receive(w, r) ==
    /\ pc[w] = "idle"
    /\ req' = [req EXCEPT ![w] = r]
    /\ pc' = [pc EXCEPT ![w] = "handling"]
    /\ UNCHANGED <<users, groups, members, assignments, submissions, loc, resp>>
    /\ UNCHANGED <<log_entries, feedbacks, profiles, now>>

\* worker w is about to run the handler op
Handling(w, op) == pc[w] = "handling" /\ req[w].op = op

\* the handler of worker w returns response r
Finish(w, r) ==
    /\ resp' = [resp EXCEPT ![w] = r]
    /\ pc' = [pc EXCEPT ![w] = "responding"]
    /\ req' = [req EXCEPT ![w] = NoRequest]

\* worker w sends its response and is free for the next request
Respond(w) ==
    /\ pc[w] = "responding"
    /\ pc' = [pc EXCEPT ![w] = "idle"]
    /\ resp' = [resp EXCEPT ![w] = NoResponse]
    /\ UNCHANGED <<users, groups, members, assignments, submissions, req, loc>>
    /\ UNCHANGED <<log_entries, feedbacks, profiles, now>>

-----------------------------------------------------------------------------
(* Identity: register *)

Usernames == {"ann", "bob"}

Emails == {"ann@x.org", "bob@x.org"}

\* the role field of the registration form is free text
RoleInputs == Roles \cup {"root"}

AvatarUploads == {NoUpload, Upload("me", "png"), Upload("cv", "pdf")}

RegisterRequests ==
    [op : {"register"}, authenticated : BOOLEAN, method : Methods,
     username : Usernames \cup {Absent}, email : Emails \cup {Absent},
     pwMatch : BOOLEAN, role : RoleInputs, file : AvatarUploads]

\* User.query.filter_by(username=username).first()
UserByUsername(username) ==
    First({i \in 1..Len(users) : username # Absent /\ users[i].username = username})

\* the email lookup filtering on the username column
UserByEmailWrongColumn(email) ==
    First({i \in 1..Len(users) : email # Absent /\ users[i].username = email})

\* User.query.filter_by(email=email).first()
UserByEmail(email) ==
    First({i \in 1..Len(users) : email # Absent /\ users[i].email = email})

\* the avatar branch of register: only image extensions are stored
RegisterAvatar(file) ==
    IF file.present /\ HasFilename(file)
       /\ file.dot /\ lower(file.ext) \in {"png", "jpg", "jpeg", "gif"}
    THEN {[folder |-> "profiles", stem |-> file.stem, ext |-> file.ext]}
    ELSE {}

\* the users row register builds
NewUser(r) ==
    [username |-> r.username, email |-> r.email, role |-> r.role,
     profile_picture |-> RegisterAvatar(r.file)]

\* db.session.commit() of a users row: the NOT NULL columns, the role Enum and
\* the unique=True columns username and email
UserRowAccepted(row) ==
    /\ row.username # Absent /\ row.email # Absent /\ row.role \in Roles
    /\ \A i \in 1..Len(users) :
          users[i].username # row.username /\ users[i].email # row.email

\* what register answers to request r, and the users table it leaves
RegisterOutcome(r) ==
    IF r.authenticated
    THEN [resp |-> Reply("register", 302, "dashboard"), users |-> users]
    ELSE IF r.method = "GET"
    THEN [resp |-> Reply("register", 200, "form"), users |-> users]
    ELSE IF ~r.pwMatch
    THEN [resp |-> Reply("register", 200, "Passwords do not match"), users |-> users]
    ELSE IF UserByUsername(r.username) # 0
    THEN [resp |-> Reply("register", 200, "Username already exists"), users |-> users]
    ELSE IF UserByEmail(r.email) # 0
    THEN [resp |-> Reply("register", 200, "Email already exists"), users |-> users]
    ELSE IF ~UserRowAccepted(NewUser(r))
    THEN [resp |-> Reply("register", 500, "IntegrityError"), users |-> users]
    ELSE [resp |-> Reply("register", 302, "Registration successful. Please login."),
          users |-> Append(users, NewUser(r))]

\* the profile picture register writes to the upload folder: file.save comes
\* after the username and email lookups and before the commit
RegisterSaved(r) ==
    IF /\ ~r.authenticated /\ r.method = "POST" /\ r.pwMatch
       /\ UserByUsername(r.username) = 0 /\ UserByEmail(r.email) = 0
    THEN RegisterAvatar(r.file)
    ELSE {}

register(w) ==
    /\ Handling(w, "register")
    /\ Len(RegisterOutcome(req[w]).users) <= MaxUsers
    /\ users' = RegisterOutcome(req[w]).users
    /\ profiles' = profiles \cup RegisterSaved(req[w])
    /\ Finish(w, RegisterOutcome(req[w]).resp)
    /\ UNCHANGED <<groups, members, assignments, submissions, loc>>
    /\ UNCHANGED <<log_entries, feedbacks, now>>

-----------------------------------------------------------------------------
(* Specification of the registration flow, on an empty database *)

InitReg ==
    /\ users = <<>>
    /\ groups = <<>>
    /\ members = <<>>
    /\ assignments = <<>>
    /\ submissions = <<>>
    /\ req = [w \in Workers |-> NoRequest]
    /\ pc = [w \in Workers |-> "idle"]
    /\ loc = [w \in Workers |-> NoLocals]
    /\ resp = [w \in Workers |-> NoResponse]
    /\ log_entries = <<>>
    /\ feedbacks = <<>>
    /\ profiles = {}
    /\ now = 1

NextReg ==
    \/ \E r \in RegisterRequests : Receive(1, r)
    \/ register(1)
    \/ Respond(1)

SpecReg == InitReg /\ [][NextReg]_vars

-----------------------------------------------------------------------------
(* Membership registry: create_group, join_group *)

UserIds == 1..Len(users)

\* the join secrets teachers choose; the empty string is a legal column value
JoinPasswords == {"", "abc"}

CreateGroupRequests ==
    [op : {"create_group"}, user : UserIds, method : Methods,
     join_password : JoinPasswords \cup {Absent}]

JoinGroupRequests ==
    [op : {"join_group"}, user : UserIds, method : Methods,
     password : JoinPasswords \cup {Absent, "guess"}]

\* what create_group answers to request r, and the groups table it leaves
CreateGroupOutcome(r) ==
    IF users[r.user].role # "teacher"
    THEN [resp |-> Reply("create_group", 302, "Only teachers can create groups"),
          groups |-> groups]
    ELSE IF r.method = "GET"
    THEN [resp |-> Reply("create_group", 200, "form"), groups |-> groups]
    ELSE IF r.join_password = Absent
    THEN [resp |-> Reply("create_group", 500, "IntegrityError"), groups |-> groups]
    ELSE [resp |-> Reply("create_group", 302, "Group created successfully"),
          groups |-> Append(groups, [teacher_id |-> r.user,
                                     join_password |-> r.join_password])]

create_group(w) ==
    /\ Handling(w, "create_group")
    /\ Len(CreateGroupOutcome(req[w]).groups) <= MaxGroups
    /\ groups' = CreateGroupOutcome(req[w]).groups
    /\ Finish(w, CreateGroupOutcome(req[w]).resp)
    /\ UNCHANGED <<users, members, assignments, submissions, loc>>
    /\ UNCHANGED <<log_entries, feedbacks, profiles, now>>

\* Group.query.filter_by(join_password=password).first()
GroupByPassword(password) ==
    First({g \in 1..Len(groups) : groups[g].join_password = password})

\* the membership lookup without its filter on the group
MembershipsInAnyGroup(mems, g, u) ==
    {m \in 1..Len(mems) : mems[m].student_id = u}

\* GroupMember.query.filter_by(group_id=g, student_id=u).all() on table mems,
\* as row ids
MembershipsIn(mems, g, u) ==
    {m \in 1..Len(mems) : mems[m].group_id = g /\ mems[m].student_id = u}

\* the membership lookup filtering on the student alone
MembershipsOfStudent(g, u) == {m \in 1..Len(members) : members[m].student_id = u}

Memberships(g, u) == MembershipsIn(members, g, u)

\* the response marking that a handler goes on to its insert
Proceed(op) == Reply(op, 0, "insert")

\* join_group up to and including the existing-member lookup: the response that
\* ends the request there, or Proceed
JoinGroupCheck(r) ==
    IF users[r.user].role # "student"
    THEN Reply("join_group", 302, "Only students can join groups")
    ELSE IF r.method = "GET"
    THEN Reply("join_group", 200, "form")
    ELSE IF r.password = Absent \/ r.password = ""
    THEN Reply("join_group", 200, "Please enter the group password")
    ELSE IF GroupByPassword(r.password) = 0
    THEN Reply("join_group", 200, "Invalid group password")
    ELSE IF First(Memberships(GroupByPassword(r.password), r.user)) # 0
    THEN Reply("join_group", 302, "You are already a member of this group")
    ELSE Proceed("join_group")

\* membership = GroupMember(...); db.session.add(membership); db.session.commit()
JoinGroupInsert(g, u) == Append(members, [group_id |-> g, student_id |-> u])

JoinGroupDone == Reply("join_group", 302, "Successfully joined the group")

\* the whole handler, run without interruption
join_group(w) ==
    /\ Handling(w, "join_group")
    /\ IF JoinGroupCheck(req[w]) = Proceed("join_group")
       THEN /\ Len(members) < MaxMembers
            /\ members' = JoinGroupInsert(GroupByPassword(req[w].password), req[w].user)
            /\ Finish(w, JoinGroupDone)
       ELSE /\ members' = members
            /\ Finish(w, JoinGroupCheck(req[w]))
    /\ UNCHANGED <<users, groups, assignments, submissions, loc>>
    /\ UNCHANGED <<log_entries, feedbacks, profiles, now>>

\* the handler up to the existing-member lookup
join_group_lookup(w) ==
    /\ Handling(w, "join_group")
    /\ IF JoinGroupCheck(req[w]) = Proceed("join_group")
       THEN /\ pc' = [pc EXCEPT ![w] = "join_insert"]
            /\ loc' = [loc EXCEPT ![w] = [target |-> GroupByPassword(req[w].password)]]
            /\ UNCHANGED <<req, resp>>
       ELSE /\ Finish(w, JoinGroupCheck(req[w]))
            /\ loc' = loc
    /\ UNCHANGED <<users, groups, members, assignments, submissions>>
    /\ UNCHANGED <<log_entries, feedbacks, profiles, now>>

\* the handler from the insert on
join_group_insert(w) ==
    /\ pc[w] = "join_insert"
    /\ Len(members) < MaxMembers
    /\ members' = JoinGroupInsert(loc[w].target, req[w].user)
    /\ Finish(w, JoinGroupDone)
    /\ loc' = [loc EXCEPT ![w] = NoLocals]
    /\ UNCHANGED <<users, groups, assignments, submissions>>
    /\ UNCHANGED <<log_entries, feedbacks, profiles, now>>

-----------------------------------------------------------------------------
(* Assignment workflow: create_assignment, submit_assignment *)

QuestionUploads == {NoUpload, Upload("task", "pdf"), Upload("task", "exe")}

\* due_date is the day the due_date field parses to, 0 when strptime refuses it
CreateAssignmentRequests ==
    [op : {"create_assignment"}, user : UserIds, method : Methods,
     group_id : 1..(Len(groups) + 1), due_date : {0} \cup Days,
     description : Texts, file : QuestionUploads]

\* what create_assignment answers to request r, and the assignments table it leaves
CreateAssignmentOutcome(r) ==
    IF users[r.user].role # "teacher"
    THEN [resp |-> Reply("create_assignment", 302, "Only teachers can create assignments"),
          assignments |-> assignments]
    ELSE IF r.method = "GET"
    THEN [resp |-> Reply("create_assignment", 200, "form"), assignments |-> assignments]
    ELSE IF r.group_id \notin 1..Len(groups) \/ groups[r.group_id].teacher_id # r.user
    THEN [resp |-> Reply("create_assignment", 200, "Invalid group selection"),
          assignments |-> assignments]
    ELSE IF r.due_date = 0
    THEN [resp |-> Reply("create_assignment", 200, "Invalid date format"),
          assignments |-> assignments]
    ELSE IF r.file.present /\ HasFilename(r.file) /\ ~allowed_file(r.file)
    THEN [resp |-> Reply("create_assignment", 200, "Invalid file type"),
          assignments |-> assignments]
    ELSE [resp |-> Reply("create_assignment", 302, "Assignment created successfully"),
          assignments |-> Append(assignments,
              [group_id |-> r.group_id, teacher_id |-> r.user,
               question_file |-> save_file(r.file, "questions"),
               due_date |-> r.due_date, description |-> r.description])]

create_assignment(w) ==
    /\ Handling(w, "create_assignment")
    /\ Len(CreateAssignmentOutcome(req[w]).assignments) <= MaxAssignments
    /\ assignments' = CreateAssignmentOutcome(req[w]).assignments
    /\ Finish(w, CreateAssignmentOutcome(req[w]).resp)
    /\ UNCHANGED <<users, groups, members, submissions, loc>>
    /\ UNCHANGED <<log_entries, feedbacks, profiles, now>>

SubmissionUploads ==
    {NoUpload, EmptyUpload, Upload("essay", "pdf"), Upload("scan", "PNG"),
     Upload("tool", "exe")}

SubmitRequests ==
    [op : {"submit_assignment"}, user : UserIds, method : Methods,
     assignment_id : 1..(Len(assignments) + 1), file : SubmissionUploads]

\* Submission.query.filter_by(assignment_id=a, student_id=u).all(), as row ids
SubmissionsOf(subs, a, u) ==
    {i \in 1..Len(subs) : subs[i].assignment_id = a /\ subs[i].student_id = u}

\* the existing-submission lookup with its two filter values swapped
ExistingSubmissionSwapped(r) ==
    First(SubmissionsOf(submissions, r.user, r.assignment_id))

\* existing_submission = Submission.query.filter_by(...).first()
ExistingSubmission(r) == First(SubmissionsOf(submissions, r.assignment_id, r.user))

\* submit_assignment up to its insert: the response that ends the request
\* there, or Proceed
SubmitCheck(r) ==
    IF users[r.user].role # "student"
    THEN Reply("submit_assignment", 302, "Only students can submit assignments")
    ELSE IF r.assignment_id \notin 1..Len(assignments)
    THEN Reply("submit_assignment", 404, "Not Found")
    ELSE IF First(Memberships(assignments[r.assignment_id].group_id, r.user)) = 0
    THEN Reply("submit_assignment", 302, "You are not a member of this group")
    ELSE IF r.method = "GET"
    THEN Reply("submit_assignment", 200, "form")
    ELSE IF ExistingSubmission(r) # 0
    THEN Reply("submit_assignment", 302, "You have already submitted this assignment")
    ELSE IF ~r.file.present \/ ~HasFilename(r.file)
    THEN Reply("submit_assignment", 200, "Please select a file to upload")
    ELSE IF save_file(r.file, "submissions") = {}
    THEN Reply("submit_assignment", 200, "Invalid file type")
    ELSE Proceed("submit_assignment")

\* submission = Submission(...); db.session.add(submission); db.session.commit()
SubmitInsert(r) ==
    Append(submissions,
           [assignment_id |-> r.assignment_id, student_id |-> r.user,
            file_path |-> CHOOSE p \in save_file(r.file, "submissions") : TRUE,
            grade |-> {}, feedback |-> {}])

SubmitDone == Reply("submit_assignment", 302, "Assignment submitted successfully")

\* the whole handler, run without interruption
submit_assignment(w) ==
    /\ Handling(w, "submit_assignment")
    /\ IF SubmitCheck(req[w]) = Proceed("submit_assignment")
       THEN /\ Len(submissions) < MaxSubmissions
            /\ submissions' = SubmitInsert(req[w])
            /\ Finish(w, SubmitDone)
       ELSE /\ submissions' = submissions
            /\ Finish(w, SubmitCheck(req[w]))
    /\ UNCHANGED <<users, groups, members, assignments, loc>>
    /\ UNCHANGED <<log_entries, feedbacks, profiles, now>>

\* the handler up to the existing-submission lookup and the checks of the form
submit_assignment_lookup(w) ==
    /\ Handling(w, "submit_assignment")
    /\ IF SubmitCheck(req[w]) = Proceed("submit_assignment")
       THEN /\ pc' = [pc EXCEPT ![w] = "submit_insert"]
            /\ UNCHANGED <<req, resp>>
       ELSE Finish(w, SubmitCheck(req[w]))
    /\ UNCHANGED <<users, groups, members, assignments, submissions, loc>>
    /\ UNCHANGED <<log_entries, feedbacks, profiles, now>>

\* the handler from the insert on
submit_assignment_insert(w) ==
    /\ pc[w] = "submit_insert"
    /\ Len(submissions) < MaxSubmissions
    /\ submissions' = SubmitInsert(req[w])
    /\ Finish(w, SubmitDone)
    /\ UNCHANGED <<users, groups, members, assignments, loc>>
    /\ UNCHANGED <<log_entries, feedbacks, profiles, now>>

-----------------------------------------------------------------------------
(* Specification of the membership and submission flows, one request at a time *)

\* the accounts registered before the flows start
Population ==
    <<[username |-> "tina", email |-> "tina@x.org", role |-> "teacher",
       profile_picture |-> {}],
      [username |-> "theo", email |-> "theo@x.org", role |-> "teacher",
       profile_picture |-> {}],
      [username |-> "sam", email |-> "sam@x.org", role |-> "student",
       profile_picture |-> {}],
      [username |-> "sue", email |-> "sue@x.org", role |-> "student",
       profile_picture |-> {}],
      [username |-> "adam", email |-> "adam@x.org", role |-> "admin",
       profile_picture |-> {}]>>

Init ==
    /\ users = Population
    /\ groups = <<>>
    /\ members = <<>>
    /\ assignments = <<>>
    /\ submissions = <<>>
    /\ req = [w \in Workers |-> NoRequest]
    /\ pc = [w \in Workers |-> "idle"]
    /\ loc = [w \in Workers |-> NoLocals]
    /\ resp = [w \in Workers |-> NoResponse]
    /\ log_entries = <<>>
    /\ feedbacks = <<>>
    /\ profiles = {}
    /\ now = 1

\* the assignments of these flows are due on day 1 and described in a word
PlainAssignmentRequests ==
    [op : {"create_assignment"}, user : UserIds, method : Methods,
     group_id : 1..(Len(groups) + 1), due_date : {0, 1},
     description : {"notes"}, file : QuestionUploads]

Requests ==
    CreateGroupRequests \cup JoinGroupRequests \cup PlainAssignmentRequests
        \cup SubmitRequests

Next ==
    \/ \E r \in Requests : Receive(1, r)
    \/ create_group(1)
    \/ join_group(1)
    \/ create_assignment(1)
    \/ submit_assignment(1)
    \/ Respond(1)

Spec == Init /\ [][Next]_vars

-----------------------------------------------------------------------------
(* Assignment workflow: grade_assignment *)

\* The "grade" member of the JSON body.  json is the JSON type; a string is
\* empty, a decimal numeral, the text "nan" or other text; val is the number a
\* numeral denotes, in thousandths.
JNull == [json |-> "null", lit |-> "none", val |-> 0]

JString(lit, val) == [json |-> "string", lit |-> lit, val |-> val]

JNumber(val) == [json |-> "number", lit |-> "decimal", val |-> val]

\* the strings "", "abc", "nan", "-1", "0", "87.5", "100" and the numbers 0,
\* 87.555 and 150
GradeInputs ==
    {JNull, JString("empty", 0), JString("text", 0), JString("nan", 0)}
        \cup {JString("decimal", v) : v \in {-1000, 0, 87500, 100000}}
        \cup {JNumber(v) : v \in {0, 87555, 150000}}

FeedbackInputs == {Absent, "Well done"}

GradeRequests ==
    [op : {"grade_assignment"}, user : UserIds,
     assignment_id : 1..(Len(assignments) + 1),
     student_id : {0} \cup {u \in UserIds : users[u].role = "student"},
     grade : GradeInputs, feedback : FeedbackInputs]

\* Python truth value of the JSON value: None, '' and 0 are false
Truthy(g) ==
    CASE g.json = "null" -> FALSE
      [] g.json = "string" -> g.lit # "empty"
      [] g.json = "number" -> g.val # 0

\* the test written as: grade is not None
GradeGivenNotNone(g) == g.json # "null"

\* grade and grade != ''
GradeGiven(g) == Truthy(g) /\ ~(g.json = "string" /\ g.lit = "empty")

\* float(grade): "error" stands for ValueError
Float(g) ==
    CASE g.lit = "decimal" -> [kind |-> "finite", val |-> g.val]
      [] g.lit = "nan" -> [kind |-> "nan", val |-> 0]
      [] OTHER -> [kind |-> "error", val |-> 0]

\* the range test without its lower bound
OutOfRangeAbove(f) == f.kind = "finite" /\ f.val > 100000

\* grade_value < 0 or grade_value > 100; every comparison with nan is false
OutOfRange(f) == f.kind = "finite" /\ (f.val < 0 \/ f.val > 100000)

\* the Numeric(5, 2) column: thousandths rounded half up to hundredths
Numeric52(val) == (val + 5) \div 10

\* data.get('feedback', '')
FeedbackText(fb) == IF fb = Absent THEN "" ELSE fb

\* the update adding the new grade to the stored one
GradeUpdateAdding(subs, i, g, fb) ==
    [subs EXCEPT ![i].grade = IF GradeGiven(g)
                                THEN {Numeric52(Float(g).val)
                                      + (IF @ = {} THEN 0 ELSE CHOOSE h \in @ : TRUE)}
                                ELSE {},
                 ![i].feedback = {FeedbackText(fb)}]

\* the submissions table after submission.grade = ..., submission.feedback = ...
\* on row i and db.session.commit()
GradeUpdate(subs, i, g, fb) ==
    [subs EXCEPT ![i].grade = IF GradeGiven(g) THEN {Numeric52(Float(g).val)} ELSE {},
                 ![i].feedback = {FeedbackText(fb)}]

\* the ownership test passing every teacher
OwnsAssignmentAnyTeacher(u, a) == users[u].role = "teacher"

\* assignment.group.teacher_id == current_user.id
OwnsAssignment(u, a) == groups[assignments[a].group_id].teacher_id = u

\* what grade_assignment answers to request r on the submissions table subs,
\* and the table it leaves
GradeOutcome(subs, r) ==
    IF users[r.user].role # "teacher"
    THEN [resp |-> Reply("grade_assignment", 403, "Only teachers can grade assignments"),
          submissions |-> subs]
    ELSE IF r.assignment_id \notin 1..Len(assignments)
    THEN [resp |-> Reply("grade_assignment", 404, "Not Found"), submissions |-> subs]
    ELSE IF ~OwnsAssignment(r.user, r.assignment_id)
    THEN [resp |-> Reply("grade_assignment", 403, "You are not the teacher of this group"),
          submissions |-> subs]
    ELSE IF GradeGiven(r.grade) /\ Float(r.grade).kind = "error"
    THEN [resp |-> Reply("grade_assignment", 400, "Invalid grade format"),
          submissions |-> subs]
    ELSE IF GradeGiven(r.grade) /\ OutOfRange(Float(r.grade))
    THEN [resp |-> Reply("grade_assignment", 400, "Grade must be between 0 and 100"),
          submissions |-> subs]
    ELSE IF First(SubmissionsOf(subs, r.assignment_id, r.student_id)) = 0
    THEN [resp |-> Reply("grade_assignment", 404, "Submission not found"),
          submissions |-> subs]
    ELSE IF GradeGiven(r.grade) /\ Float(r.grade).kind = "nan"
    THEN \* the database refuses the value: rollback
         [resp |-> Reply("grade_assignment", 500, "Database error occurred"),
          submissions |-> subs]
    ELSE [resp |-> Reply("grade_assignment", 200, "Grade updated successfully"),
          submissions |->
              GradeUpdate(subs, First(SubmissionsOf(subs, r.assignment_id, r.student_id)),
                          r.grade, r.feedback)]

grade_assignment(w) ==
    /\ Handling(w, "grade_assignment")
    /\ submissions' = GradeOutcome(submissions, req[w]).submissions
    /\ Finish(w, GradeOutcome(submissions, req[w]).resp)
    /\ UNCHANGED <<users, groups, members, assignments, loc>>
    /\ UNCHANGED <<log_entries, feedbacks, profiles, now>>

-----------------------------------------------------------------------------
(* Specification of submitting and grading in a classroom that is set up:    *)
(* tina owns group 1 with its assignment, theo owns group 2, sam and sue    *)
(* have joined group 1.                                                      *)

InitGrade ==
    /\ users = Population
    /\ groups = <<[teacher_id |-> 1, join_password |-> "abc"],
                  [teacher_id |-> 2, join_password |-> ""]>>
    /\ members = <<[group_id |-> 1, student_id |-> 3],
                   [group_id |-> 1, student_id |-> 4]>>
    /\ assignments = <<[group_id |-> 1, teacher_id |-> 1, question_file |-> {},
                         due_date |-> 1, description |-> "notes"]>>
    /\ submissions = <<>>
    /\ req = [w \in Workers |-> NoRequest]
    /\ pc = [w \in Workers |-> "idle"]
    /\ loc = [w \in Workers |-> NoLocals]
    /\ resp = [w \in Workers |-> NoResponse]
    /\ log_entries = <<>>
    /\ feedbacks = <<>>
    /\ profiles = {}
    /\ now = 1

\* the students of this classroom hand in essays
EssayRequests == {r \in SubmitRequests : r.file # Upload("scan", "PNG")}

NextGrade ==
    \/ \E r \in EssayRequests \cup GradeRequests : Receive(1, r)
    \/ submit_assignment(1)
    \/ grade_assignment(1)
    \/ Respond(1)

SpecGrade == InitGrade /\ [][NextGrade]_vars

-----------------------------------------------------------------------------
(* Specification of two workers serving the students' join and submit       *)
(* requests at once: each handler runs its lookup and its insert as two     *)
(* steps, and the other worker may run in between.                          *)

InitConc ==
    /\ users = Population
    /\ groups = <<[teacher_id |-> 1, join_password |-> "abc"],
                  [teacher_id |-> 2, join_password |-> ""]>>
    /\ members = <<>>
    /\ assignments = <<[group_id |-> 1, teacher_id |-> 1, question_file |-> {},
                         due_date |-> 1, description |-> "notes"]>>
    /\ submissions = <<>>
    /\ req = [w \in Workers |-> NoRequest]
    /\ pc = [w \in Workers |-> "idle"]
    /\ loc = [w \in Workers |-> NoLocals]
    /\ resp = [w \in Workers |-> NoResponse]
    /\ log_entries = <<>>
    /\ feedbacks = <<>>
    /\ profiles = {}
    /\ now = 1

\* the forms the students post
ConcRequests ==
    {r \in JoinGroupRequests :
        /\ r.method = "POST" /\ users[r.user].role = "student"
        /\ r.password \in {"abc", "guess"}}
    \cup
    {r \in SubmitRequests :
        /\ r.method = "POST" /\ users[r.user].role = "student"
        /\ r.file \in {NoUpload, Upload("essay", "pdf")}}

NextConc ==
    \E w \in Workers :
        \/ \E r \in ConcRequests : Receive(w, r)
        \/ join_group_lookup(w)
        \/ join_group_insert(w)
        \/ submit_assignment_lookup(w)
        \/ submit_assignment_insert(w)
        \/ Respond(w)

SpecConc == InitConc /\ [][NextConc]_vars

-----------------------------------------------------------------------------
(* Journal store: create_log, add_feedback *)

\* the media a student attaches to a log entry
MediaUploads == {NoUpload, Upload("pic", "png")}

\* group_id is the group the form names, 0 when the form names none
CreateLogRequests ==
    [op : {"create_log"}, user : UserIds, method : Methods,
     group_id : 0..(Len(groups) + 1), content : Texts \cup {Absent},
     file : MediaUploads]

\* what create_log answers to request r, and the log_entries table it leaves
CreateLogOutcome(r) ==
    IF users[r.user].role # "student"
    THEN [resp |-> Reply("create_log", 302, "Only students can create log entries"),
          log_entries |-> log_entries]
    ELSE IF r.method = "GET"
    THEN [resp |-> Reply("create_log", 200, "form"), log_entries |-> log_entries]
    ELSE IF First(Memberships(r.group_id, r.user)) = 0
    THEN [resp |-> Reply("create_log", 302, "You are not a member of this group"),
          log_entries |-> log_entries]
    ELSE IF r.content = Absent
    THEN \* log_entries.content is NOT NULL: the commit raises
         [resp |-> Reply("create_log", 500, "IntegrityError"),
          log_entries |-> log_entries]
    ELSE [resp |-> Reply("create_log", 302, "Log entry created successfully"),
          log_entries |-> Append(log_entries,
              [group_id |-> r.group_id, student_id |-> r.user,
               content |-> r.content, media_url |-> save_file(r.file, "media"),
               created_at |-> now])]

create_log(w) ==
    /\ Handling(w, "create_log")
    /\ Len(CreateLogOutcome(req[w]).log_entries) <= MaxLogs
    /\ log_entries' = CreateLogOutcome(req[w]).log_entries
    /\ Finish(w, CreateLogOutcome(req[w]).resp)
    /\ UNCHANGED <<users, groups, members, assignments, submissions, loc>>
    /\ UNCHANGED <<feedbacks, profiles, now>>

\* the "feedback" member of the JSON body
FeedbackBodies == {Absent, "", " ", "Good start"}

AddFeedbackRequests ==
    [op : {"add_feedback"}, user : UserIds,
     log_id : 1..(Len(log_entries) + 1), feedback : FeedbackBodies]

\* the test accepting every body the request carries
FeedbackGivenNotNone(text) == text # Absent

\* the negation of: not feedback_text
FeedbackGiven(text) == text # Absent /\ text # ""

\* log_entry.group.teacher_id == current_user.id
OwnsLog(u, l) == groups[log_entries[l].group_id].teacher_id = u

\* what add_feedback answers to request r, and the feedbacks table it leaves
AddFeedbackOutcome(r) ==
    IF users[r.user].role # "teacher"
    THEN [resp |-> Reply("add_feedback", 403, "Only teachers can provide feedback"),
          feedbacks |-> feedbacks]
    ELSE IF r.log_id \notin 1..Len(log_entries)
    THEN [resp |-> Reply("add_feedback", 404, "Not Found"), feedbacks |-> feedbacks]
    ELSE IF ~OwnsLog(r.user, r.log_id)
    THEN [resp |-> Reply("add_feedback", 403, "You are not the teacher of this group"),
          feedbacks |-> feedbacks]
    ELSE IF ~FeedbackGiven(r.feedback)
    THEN [resp |-> Reply("add_feedback", 400, "Feedback cannot be empty"),
          feedbacks |-> feedbacks]
    ELSE [resp |-> Reply("add_feedback", 200, "Feedback added successfully"),
          feedbacks |-> Append(feedbacks,
              [log_id |-> r.log_id, teacher_id |-> r.user, feedback |-> r.feedback])]

add_feedback(w) ==
    /\ Handling(w, "add_feedback")
    /\ Len(AddFeedbackOutcome(req[w]).feedbacks) <= MaxFeedbacks
    /\ feedbacks' = AddFeedbackOutcome(req[w]).feedbacks
    /\ Finish(w, AddFeedbackOutcome(req[w]).resp)
    /\ UNCHANGED <<users, groups, members, assignments, submissions, loc>>
    /\ UNCHANGED <<log_entries, profiles, now>>

-----------------------------------------------------------------------------
(* Views of a group: view_group, generate_report, get_timeline_data *)

\* a response that serves data: the rendered page, the PDF, the JSON list
ReplyData(op, code, msg, data) ==
    [op |-> op, code |-> code, msg |-> msg, data |-> data]

\* the response marking that an access check let the caller through
Granted(op) == Reply(op, 0, "granted")

ViewGroupRequests ==
    [op : {"view_group"}, user : UserIds, group_id : 1..(Len(groups) + 1)]

GenerateReportRequests ==
    [op : {"generate_report"}, user : UserIds, group_id : 1..(Len(groups) + 1)]

TimelineRequests ==
    [op : {"get_timeline_data"}, user : UserIds, group_id : 1..(Len(groups) + 1)]

\* the rows of a table that belong to group g, as row ids
LogsOf(g) == {i \in 1..Len(log_entries) : log_entries[i].group_id = g}

AssignmentsOf(g) == {a \in 1..Len(assignments) : assignments[a].group_id = g}

MembersOf(g) == {m \in 1..Len(members) : members[m].group_id = g}

\* the access check view_group and generate_report both start with: the
\* response that turns the caller away, or Granted
GroupAccessCheck(op, r) ==
    IF r.group_id \notin 1..Len(groups)
    THEN Reply(op, 404, "Not Found")
    ELSE IF users[r.user].role = "student"
            /\ First(Memberships(r.group_id, r.user)) = 0
    THEN Reply(op, 302, "You are not a member of this group")
    ELSE IF users[r.user].role = "teacher" /\ groups[r.group_id].teacher_id # r.user
    THEN Reply(op, 302, "You are not the teacher of this group")
    ELSE Granted(op)

\* what view_group answers to request r
ViewGroupOutcome(r) ==
    IF GroupAccessCheck("view_group", r) # Granted("view_group")
    THEN GroupAccessCheck("view_group", r)
    ELSE ReplyData("view_group", 200, "groups/view.html",
                   [group |-> r.group_id, log_entries |-> LogsOf(r.group_id),
                    assignments |-> AssignmentsOf(r.group_id),
                    members |-> MembersOf(r.group_id)])

view_group(w) ==
    /\ Handling(w, "view_group")
    /\ Finish(w, ViewGroupOutcome(req[w]))
    /\ UNCHANGED <<users, groups, members, assignments, submissions, loc>>
    /\ UNCHANGED <<log_entries, feedbacks, profiles, now>>

\* the Status column of the report's assignment table: submission_count and
\* member_count of assignment a of group g
ReportStatus(a, g) ==
    [submitted |-> Cardinality({i \in 1..Len(submissions) :
                                   submissions[i].assignment_id = a}),
     members |-> Cardinality(MembersOf(g))]

\* what generate_report answers to request r; the model's tables stay below
\* the ten log entries the report is limited to
GenerateReportOutcome(r) ==
    IF GroupAccessCheck("generate_report", r) # Granted("generate_report")
    THEN GroupAccessCheck("generate_report", r)
    ELSE ReplyData("generate_report", 200, "report.pdf",
                   [group |-> r.group_id, members |-> MembersOf(r.group_id),
                    log_entries |-> LogsOf(r.group_id),
                    assignments |-> [a \in AssignmentsOf(r.group_id) |->
                                        ReportStatus(a, r.group_id)]])

generate_report(w) ==
    /\ Handling(w, "generate_report")
    /\ Finish(w, GenerateReportOutcome(req[w]))
    /\ UNCHANGED <<users, groups, members, assignments, submissions, loc>>
    /\ UNCHANGED <<log_entries, feedbacks, profiles, now>>

\* the access check without its branch for students
TimelineAccessCheckTeachers(r) ==
    IF users[r.user].role = "teacher"
       /\ (\/ r.group_id \notin 1..Len(groups)
           \/ groups[r.group_id].teacher_id # r.user)
    THEN Reply("get_timeline_data", 403, "Access denied")
    ELSE Granted("get_timeline_data")

\* the access check of get_timeline_data
TimelineAccessCheck(r) ==
    IF users[r.user].role = "student"
       /\ First(Memberships(r.group_id, r.user)) = 0
    THEN Reply("get_timeline_data", 403, "Access denied")
    ELSE IF users[r.user].role = "teacher"
            /\ (\/ r.group_id \notin 1..Len(groups)
                \/ groups[r.group_id].teacher_id # r.user)
    THEN Reply("get_timeline_data", 403, "Access denied")
    ELSE Granted("get_timeline_data")

\* the description cut without the marker
TruncateBare(text) == IF Len(text) > 100 THEN SubSeq(text, 1, 100) ELSE text

\* text[:100] + '...' if len(text) > 100 else text
Truncate(text) == IF Len(text) > 100 THEN SubSeq(text, 1, 100) \o "..." ELSE text

\* order_by(column.asc()): the row ids in ids by ascending key, rows of equal
\* key by id
RECURSIVE OrderBy(_, _)
OrderBy(ids, key) ==
    IF ids = {} THEN <<>>
    ELSE LET first == CHOOSE i \in ids :
                         \A j \in ids : key[i] < key[j] \/ (key[i] = key[j] /\ i <= j)
         IN <<first>> \o OrderBy(ids \ {first}, key)

\* the event of log entry i; start is created_at.strftime('%Y-%m-%d')
LogEvent(i) ==
    [id |-> <<"log", i>>, start |-> log_entries[i].created_at,
     className |-> "log-entry", description |-> Truncate(log_entries[i].content)]

\* the event of assignment a; start is due_date.strftime('%Y-%m-%d')
AssignmentEvent(a) ==
    [id |-> <<"assignment", a>>, start |-> assignments[a].due_date,
     className |-> "assignment", description |-> Truncate(assignments[a].description)]

\* timeline_data: the events of the log entries, then those of the assignments
TimelineEvents(g) ==
    LET logs == OrderBy(LogsOf(g), [i \in LogsOf(g) |-> log_entries[i].created_at])
        asgs == OrderBy(AssignmentsOf(g),
                        [a \in AssignmentsOf(g) |-> assignments[a].due_date])
    IN [k \in 1..Len(logs) |-> LogEvent(logs[k])]
           \o [k \in 1..Len(asgs) |-> AssignmentEvent(asgs[k])]

\* what get_timeline_data answers to request r
TimelineOutcome(r) ==
    IF TimelineAccessCheck(r) # Granted("get_timeline_data")
    THEN TimelineAccessCheck(r)
    ELSE ReplyData("get_timeline_data", 200, "json", TimelineEvents(r.group_id))

get_timeline_data(w) ==
    /\ Handling(w, "get_timeline_data")
    /\ Finish(w, TimelineOutcome(req[w]))
    /\ UNCHANGED <<users, groups, members, assignments, submissions, loc>>
    /\ UNCHANGED <<log_entries, feedbacks, profiles, now>>

\* a day passes
Tick ==
    /\ now < MaxDay
    /\ now' = now + 1
    /\ UNCHANGED <<users, groups, members, assignments, submissions, req, pc, loc, resp>>
    /\ UNCHANGED <<log_entries, feedbacks, profiles>>

-----------------------------------------------------------------------------
(* Specification of the journal and the views of two classrooms: tina owns   *)
(* group 1 with its assignment and sam is its member, theo owns group 2 and  *)
(* sue is its member.                                                        *)

InitJournal ==
    /\ users = Population
    /\ groups = <<[teacher_id |-> 1, join_password |-> "abc"],
                  [teacher_id |-> 2, join_password |-> "xyz"]>>
    /\ members = <<[group_id |-> 1, student_id |-> 3],
                   [group_id |-> 2, student_id |-> 4]>>
    /\ assignments = <<[group_id |-> 1, teacher_id |-> 1, question_file |-> {},
                        due_date |-> 1, description |-> "notes"]>>
    /\ submissions = <<>>
    /\ req = [w \in Workers |-> NoRequest]
    /\ pc = [w \in Workers |-> "idle"]
    /\ loc = [w \in Workers |-> NoLocals]
    /\ resp = [w \in Workers |-> NoResponse]
    /\ log_entries = <<>>
    /\ feedbacks = <<>>
    /\ profiles = {}
    /\ now = 1

\* the log entries of these classrooms are a word long
ShortLogRequests ==
    [op : {"create_log"}, user : UserIds, method : Methods,
     group_id : 0..(Len(groups) + 1), content : {Absent, "notes"},
     file : MediaUploads]

JournalRequests ==
    ShortLogRequests \cup AddFeedbackRequests \cup ViewGroupRequests
        \cup GenerateReportRequests \cup TimelineRequests

NextJournal ==
    \/ \E r \in JournalRequests : Receive(1, r)
    \/ create_log(1)
    \/ add_feedback(1)
    \/ view_group(1)
    \/ generate_report(1)
    \/ get_timeline_data(1)
    \/ Respond(1)

SpecJournal == InitJournal /\ [][NextJournal]_vars

-----------------------------------------------------------------------------
(* Specifications of the timeline of one classroom: tina owns group 1 and    *)
(* sam is its member. Under SpecTimeline days pass between the requests and  *)
(* the texts are a word long; under SpecDescription the texts have 5, 100    *)
(* and 101 characters and everything happens on day 1.                       *)

InitTimeline ==
    /\ users = Population
    /\ groups = <<[teacher_id |-> 1, join_password |-> "abc"]>>
    /\ members = <<[group_id |-> 1, student_id |-> 3]>>
    /\ assignments = <<>>
    /\ submissions = <<>>
    /\ req = [w \in Workers |-> NoRequest]
    /\ pc = [w \in Workers |-> "idle"]
    /\ loc = [w \in Workers |-> NoLocals]
    /\ resp = [w \in Workers |-> NoResponse]
    /\ log_entries = <<>>
    /\ feedbacks = <<>>
    /\ profiles = {}
    /\ now = 1

\* posted assignment forms without a question file, due on any day
DatedAssignmentRequests ==
    [op : {"create_assignment"}, user : UserIds, method : {"POST"},
     group_id : 1..(Len(groups) + 1), due_date : Days,
     description : {"notes"}, file : {NoUpload}]

\* posted log forms without media
PostedLogRequests ==
    [op : {"create_log"}, user : UserIds, method : {"POST"},
     group_id : 1..(Len(groups) + 1), content : {"notes"}, file : {NoUpload}]

TimelineSpecRequests ==
    DatedAssignmentRequests \cup PostedLogRequests \cup TimelineRequests

NextTimeline ==
    \/ \E r \in TimelineSpecRequests : Receive(1, r)
    \/ create_assignment(1)
    \/ create_log(1)
    \/ get_timeline_data(1)
    \/ Respond(1)
    \/ Tick

SpecTimeline == InitTimeline /\ [][NextTimeline]_vars

\* posted assignment forms of the owner, with descriptions of every length
DescribedAssignmentRequests ==
    [op : {"create_assignment"}, user : {groups[1].teacher_id}, method : {"POST"},
     group_id : {1}, due_date : {1}, description : Texts, file : {NoUpload}]

\* posted log forms of the member, with bodies of every length
DescribedLogRequests ==
    [op : {"create_log"}, user : {members[1].student_id}, method : {"POST"},
     group_id : {1}, content : Texts, file : {NoUpload}]

DescriptionRequests ==
    DescribedAssignmentRequests \cup DescribedLogRequests \cup TimelineRequests

NextDescription ==
    \/ \E r \in DescriptionRequests : Receive(1, r)
    \/ create_assignment(1)
    \/ create_log(1)
    \/ get_timeline_data(1)
    \/ Respond(1)

SpecDescription == InitTimeline /\ [][NextDescription]_vars

-----------------------------------------------------------------------------
(* Identity: update_profile. full_name and contact_details are set like      *)
(* email and are left out; a form without full_name fails the commit the way *)
(* a form without email does.                                                *)

ProfileEmails == {Absent, "tina@x.org", "sam@x.org", "new@x.org"}

ProfileUploads == {NoUpload, Upload("new", "png"), Upload("tool", "exe")}

\* user is the logged-in account; role is a field a client may add to the form
ProfileRequests ==
    [op : {"update_profile"}, user : 1..Len(users), method : Methods,
     email : ProfileEmails, role : {Absent, "admin"}, file : ProfileUploads]

\* the upload branch is taken: file and file.filename != '' and allowed_file
ProfileUploadTaken(r) ==
    r.file.present /\ HasFilename(r.file) /\ allowed_file(r.file)

\* the files of the profiles folder after the upload branch: the old picture
\* of the account is removed, the new one is written
ProfileSaved(r) ==
    IF ProfileUploadTaken(r)
    THEN (profiles \ users[r.user].profile_picture) \cup save_file(r.file, "profiles")
    ELSE profiles

\* the assignments that also copy the role field of the form
ProfileRowWithRole(row, r) ==
    [row EXCEPT !.email = r.email,
                !.role = IF r.role = Absent THEN @ ELSE r.role,
                !.profile_picture = IF ProfileUploadTaken(r)
                                    THEN save_file(r.file, "profiles") ELSE @]

\* the row of current_user after the assignments of the handler
ProfileRow(row, r) ==
    [row EXCEPT !.email = r.email,
                !.profile_picture = IF ProfileUploadTaken(r)
                                    THEN save_file(r.file, "profiles") ELSE @]

\* db.session.commit() of the changed row of account u: email is NOT NULL and
\* unique
ProfileRowAccepted(u, row) ==
    /\ row.email # Absent
    /\ \A i \in 1..Len(users) : i # u => users[i].email # row.email

\* what update_profile answers to request r, the users table and the profiles
\* folder it leaves; a failed commit is rolled back, the folder is not
UpdateProfileOutcome(r) ==
    IF r.method = "GET"
    THEN [resp |-> Reply("update_profile", 200, "dashboard/profile.html"),
          users |-> users, profiles |-> profiles]
    ELSE IF ProfileRowAccepted(r.user, ProfileRow(users[r.user], r))
    THEN [resp |-> Reply("update_profile", 302, "Profile updated successfully!"),
          users |-> [users EXCEPT ![r.user] = ProfileRow(users[r.user], r)],
          profiles |-> ProfileSaved(r)]
    ELSE [resp |-> Reply("update_profile", 302,
                         "Error updating profile. Please try again."),
          users |-> users, profiles |-> ProfileSaved(r)]

update_profile(w) ==
    /\ Handling(w, "update_profile")
    /\ users' = UpdateProfileOutcome(req[w]).users
    /\ profiles' = UpdateProfileOutcome(req[w]).profiles
    /\ Finish(w, UpdateProfileOutcome(req[w]).resp)
    /\ UNCHANGED <<groups, members, assignments, submissions, loc>>
    /\ UNCHANGED <<log_entries, feedbacks, now>>

-----------------------------------------------------------------------------
(* Specification of the accounts: tina registered without a picture, sam     *)
(* with the picture face.png; ann may register; every account may update its *)
(* profile.                                                                  *)

InitProfile ==
    /\ users = <<[username |-> "tina", email |-> "tina@x.org", role |-> "teacher",
                  profile_picture |-> {}],
                 [username |-> "sam", email |-> "sam@x.org", role |-> "student",
                  profile_picture |-> RegisterAvatar(Upload("face", "png"))]>>
    /\ groups = <<>>
    /\ members = <<>>
    /\ assignments = <<>>
    /\ submissions = <<>>
    /\ req = [w \in Workers |-> NoRequest]
    /\ pc = [w \in Workers |-> "idle"]
    /\ loc = [w \in Workers |-> NoLocals]
    /\ resp = [w \in Workers |-> NoResponse]
    /\ log_entries = <<>>
    /\ feedbacks = <<>>
    /\ profiles = RegisterAvatar(Upload("face", "png"))
    /\ now = 1

\* the registration forms of ann
NewcomerRequests ==
    [op : {"register"}, authenticated : {FALSE}, method : {"POST"},
     username : {"ann"}, email : {"ann@x.org"}, pwMatch : {TRUE},
     role : {"student", "admin"}, file : {NoUpload, Upload("me", "png")}]

NextProfile ==
    \/ \E r \in NewcomerRequests \cup ProfileRequests : Receive(1, r)
    \/ register(1)
    \/ update_profile(1)
    \/ Respond(1)

SpecProfile == InitProfile /\ [][NextProfile]_vars

-----------------------------------------------------------------------------
(* Specification of the report of two classrooms: tina owns group 1 with its *)
(* assignment, theo owns group 2; students join, submit, and the report is   *)
(* drawn, one request at a time.                                             *)

InitReport ==
    /\ users = Population
    /\ groups = <<[teacher_id |-> 1, join_password |-> "abc"],
                  [teacher_id |-> 2, join_password |-> "xyz"]>>
    /\ members = <<>>
    /\ assignments = <<[group_id |-> 1, teacher_id |-> 1, question_file |-> {},
                        due_date |-> 1, description |-> "notes"]>>
    /\ submissions = <<>>
    /\ req = [w \in Workers |-> NoRequest]
    /\ pc = [w \in Workers |-> "idle"]
    /\ loc = [w \in Workers |-> NoLocals]
    /\ resp = [w \in Workers |-> NoResponse]
    /\ log_entries = <<>>
    /\ feedbacks = <<>>
    /\ profiles = {}
    /\ now = 1

\* posted join forms with the secret of either group or a wrong one
SecretJoinRequests ==
    [op : {"join_group"}, user : UserIds, method : {"POST"},
     password : {"abc", "xyz", "guess"}]

\* posted submissions of an essay
PostedEssayRequests ==
    [op : {"submit_assignment"}, user : UserIds, method : {"POST"},
     assignment_id : 1..(Len(assignments) + 1), file : {Upload("essay", "pdf")}]

ReportRequests ==
    SecretJoinRequests \cup PostedEssayRequests \cup GenerateReportRequests

NextReport ==
    \/ \E r \in ReportRequests : Receive(1, r)
    \/ join_group(1)
    \/ submit_assignment(1)
    \/ generate_report(1)
    \/ Respond(1)

SpecReport == InitReport /\ [][NextReport]_vars

-----------------------------------------------------------------------------
(* Properties *)

\* C1: when a student who already has a Submission for an assignment posts a
\* submission for it again, the request is answered "You have already submitted
\* this assignment" and the submissions table, that row's file, grade and
\* feedback included, is left as it was.
C1_DuplicateSubmitRejected ==
    [][\A w \in Workers :
          (/\ Handling(w, "submit_assignment")
           /\ req[w].method = "POST"
           /\ \E i \in 1..Len(submissions) :
                 /\ submissions[i].assignment_id = req[w].assignment_id
                 /\ submissions[i].student_id = req[w].user
           /\ pc'[w] = "responding")
          => /\ resp'[w] = Reply("submit_assignment", 302,
                                 "You have already submitted this assignment")
             /\ submissions' = submissions]_vars

\* a second submission was rejected while the first one carries a grade
C1_Witness ==
    \E w \in Workers :
        /\ resp[w] = Reply("submit_assignment", 302,
                           "You have already submitted this assignment")
        /\ \E i \in 1..Len(submissions) : submissions[i].grade # {}

\* C2: at every moment there is at most one Submission per (assignment,
\* student) pair, also when two submit requests of the same student are served
\* at once.
C2_OneSubmissionPerPair ==
    \A i, j \in 1..Len(submissions) :
        (/\ submissions[i].assignment_id = submissions[j].assignment_id
         /\ submissions[i].student_id = submissions[j].student_id) => i = j

\* C3: when a student posts a non-empty join secret, every group whose secret
\* it is has exactly one Membership for that (group, student) pair afterwards,
\* and the join of a student who is a member already adds nothing.
C3_JoinCreatesOneMembership ==
    [][\A w \in Workers :
          (/\ Handling(w, "join_group")
           /\ req[w].method = "POST"
           /\ req[w].password # ""
           /\ users[req[w].user].role = "student"
           /\ pc'[w] = "responding")
          => \A g \in 1..Len(groups) :
                groups[g].join_password = req[w].password
                => /\ Cardinality(MembershipsIn(members', g, req[w].user)) = 1
                   /\ MembershipsIn(members, g, req[w].user) # {}
                      => members' = members]_vars

\* C4: at every moment there is at most one Membership per (group, student)
\* pair, also when two join requests of the same student are served at once.
C4_OneMembershipPerPair ==
    \A i, j \in 1..Len(members) :
        (/\ members[i].group_id = members[j].group_id
         /\ members[i].student_id = members[j].student_id) => i = j

\* C5: a registration whose username or whose email belongs to an Account
\* does not succeed and leaves the users table as it was (a posted form with
\* matching passwords is answered "Username already exists" or "Email already
\* exists"); and no two Accounts share a username or an email.
C5_DuplicateRegisterFails ==
    /\ [](\A i, j \in 1..Len(users) :
            (users[i].username = users[j].username \/ users[i].email = users[j].email)
            => i = j)
    /\ [][\A w \in Workers :
             (/\ Handling(w, "register")
              /\ \E i \in 1..Len(users) :
                    \/ users[i].username = req[w].username
                    \/ users[i].email = req[w].email
              /\ pc'[w] = "responding")
             => /\ users' = users
                /\ resp'[w] # Reply("register", 302,
                                    "Registration successful. Please login.")
                /\ (~req[w].authenticated /\ req[w].method = "POST" /\ req[w].pwMatch)
                   => resp'[w].msg \in {"Username already exists",
                                        "Email already exists"}]_vars

\* a registration was refused for its email, with an Account in the table
C5_Witness ==
    \E w \in Workers :
        /\ resp[w] = Reply("register", 200, "Email already exists")
        /\ Len(users) >= 1

\* C6 as claimed: a grade request of a teacher who does not own the
\* assignment's group is answered 403, a grade request of the owning teacher
\* naming a pair without a Submission is answered 404, and neither changes the
\* submissions table.
C6_NotOwner403Missing404 ==
    [][\A w \in Workers :
          (/\ Handling(w, "grade_assignment")
           /\ req[w].assignment_id \in 1..Len(assignments)
           /\ users[req[w].user].role = "teacher"
           /\ pc'[w] = "responding")
          => LET r == req[w]
                 owner == groups[assignments[r.assignment_id].group_id].teacher_id
                 missing == \A i \in 1..Len(submissions) :
                               \/ submissions[i].assignment_id # r.assignment_id
                               \/ submissions[i].student_id # r.student_id
             IN /\ owner # r.user => (resp'[w].code = 403 /\ submissions' = submissions)
                /\ (owner = r.user /\ missing)
                   => (resp'[w].code = 404 /\ submissions' = submissions)]_vars

\* C6 amended: a grade request of a teacher who does not own the assignment's
\* group is answered 403; a grade request of the owning teacher naming a pair
\* without a Submission is answered 400 when its grade is a non-empty string
\* that is no number or a number outside [0, 100], and 404 otherwise; none of
\* them changes the submissions table.
C6_NotOwner403Missing404Valid ==
    [][\A w \in Workers :
          (/\ Handling(w, "grade_assignment")
           /\ req[w].assignment_id \in 1..Len(assignments)
           /\ users[req[w].user].role = "teacher"
           /\ pc'[w] = "responding")
          => LET r == req[w]
                 owner == groups[assignments[r.assignment_id].group_id].teacher_id
                 missing == \A i \in 1..Len(submissions) :
                               \/ submissions[i].assignment_id # r.assignment_id
                               \/ submissions[i].student_id # r.student_id
                 refused == \/ r.grade.json = "string" /\ r.grade.lit = "text"
                            \/ /\ r.grade.lit = "decimal"
                               /\ (r.grade.val < 0 \/ r.grade.val > 100000)
             IN /\ owner # r.user => (resp'[w].code = 403 /\ submissions' = submissions)
                /\ (owner = r.user /\ missing)
                   => /\ resp'[w].code = IF refused THEN 400 ELSE 404
                      /\ submissions' = submissions]_vars

\* the owning teacher was answered "Submission not found" while another
\* student's Submission is in the table
C6_Witness ==
    \E w \in Workers :
        /\ resp[w] = Reply("grade_assignment", 404, "Submission not found")
        /\ submissions # <<>>

\* C7: a grade request whose grade is a number below 0 or above 100 never
\* succeeds and changes no Submission; from the teacher who owns the
\* assignment's group it is answered 400; and every stored grade is unset or
\* within [0, 100].
C7_GradeRangeEnforced ==
    /\ [](\A i \in 1..Len(submissions) :
            \A h \in submissions[i].grade : 0 <= h /\ h <= 10000)
    /\ [][\A w \in Workers :
             (/\ Handling(w, "grade_assignment")
              /\ req[w].grade.lit = "decimal"
              /\ (req[w].grade.val < 0 \/ req[w].grade.val > 100000)
              /\ pc'[w] = "responding")
             => /\ submissions' = submissions
                /\ resp'[w].code \in {400, 403, 404}
                /\ (/\ req[w].assignment_id \in 1..Len(assignments)
                    /\ groups[assignments[req[w].assignment_id].group_id].teacher_id
                          = req[w].user)
                   => resp'[w].code = 400]_vars

\* an out-of-range grade was refused while a Submission carries a grade
C7_Witness ==
    \E w \in Workers :
        /\ resp[w] = Reply("grade_assignment", 400, "Grade must be between 0 and 100")
        /\ \E i \in 1..Len(submissions) : submissions[i].grade # {}

\* C8: for every grade value within [0, 100] with at most two decimals, 0 and
\* 100 included, a grade request of the owning teacher for an existing
\* Submission is answered 200 and the Submission's grade is that value
\* afterwards.
C8_StoresExactGrade ==
    [][\A w \in Workers :
          (/\ Handling(w, "grade_assignment")
           /\ req[w].assignment_id \in 1..Len(assignments)
           /\ groups[assignments[req[w].assignment_id].group_id].teacher_id = req[w].user
           /\ req[w].grade.lit = "decimal"
           /\ 0 <= req[w].grade.val /\ req[w].grade.val <= 100000
           /\ req[w].grade.val % 10 = 0
           /\ pc'[w] = "responding")
          => \A i \in 1..Len(submissions) :
                (/\ submissions[i].assignment_id = req[w].assignment_id
                 /\ submissions[i].student_id = req[w].student_id)
                => /\ resp'[w].code = 200
                   /\ submissions'[i].grade = {req[w].grade.val \div 10}]_vars

\* C9: a grade request of the owning teacher for an existing Submission whose
\* grade is empty (the empty string or null) is answered 200 and leaves the
\* Submission's grade unset, whatever it was before.
C9_EmptyGradeClears ==
    [][\A w \in Workers :
          (/\ Handling(w, "grade_assignment")
           /\ req[w].assignment_id \in 1..Len(assignments)
           /\ groups[assignments[req[w].assignment_id].group_id].teacher_id = req[w].user
           /\ req[w].grade \in {JNull, JString("empty", 0)}
           /\ pc'[w] = "responding")
          => \A i \in 1..Len(submissions) :
                (/\ submissions[i].assignment_id = req[w].assignment_id
                 /\ submissions[i].student_id = req[w].student_id)
                => /\ resp'[w] = Reply("grade_assignment", 200,
                                       "Grade updated successfully")
                   /\ submissions'[i].grade = {}]_vars

\* a grade request succeeded and left a graded Submission without a grade
C9_Witness ==
    \E w \in Workers :
        /\ resp[w] = Reply("grade_assignment", 200, "Grade updated successfully")
        /\ \E i \in 1..Len(submissions) :
              submissions[i].grade = {} /\ submissions[i].feedback = {"Well done"}

\* C10: grading is idempotent: the submissions table a grade request leaves
\* is the table the same request leaves when it is served once more.
C10_GradeIdempotent ==
    [][\A w \in Workers :
          (Handling(w, "grade_assignment") /\ pc'[w] = "responding")
          => GradeOutcome(submissions', req[w]).submissions = submissions']_vars

\* a grade request succeeded and a Submission carries the grade 100
C10_Witness ==
    \E w \in Workers :
        /\ resp[w] = Reply("grade_assignment", 200, "Grade updated successfully")
        /\ \E i \in 1..Len(submissions) : submissions[i].grade = {10000}

\* C11: a student without a Membership in an existing group G is turned away
\* by view_group of G, by a posted create_log naming G and by
\* get_timeline_data of G: the response carries none of G's data, and
\* create_log leaves the log_entries table as it was.
C11_NonMemberStudentDenied ==
    [][\A w \in Workers :
          (/\ pc[w] = "handling"
           /\ req[w].op \in {"view_group", "create_log", "get_timeline_data"}
           /\ users[req[w].user].role = "student"
           /\ req[w].group_id \in 1..Len(groups)
           /\ \A m \in 1..Len(members) :
                 \/ members[m].group_id # req[w].group_id
                 \/ members[m].student_id # req[w].user
           /\ pc'[w] = "responding")
          => /\ DOMAIN resp'[w] = {"op", "code", "msg"}
             /\ req[w].op = "view_group"
                => resp'[w] = Reply("view_group", 302,
                                    "You are not a member of this group")
             /\ (req[w].op = "create_log" /\ req[w].method = "POST")
                => /\ resp'[w] = Reply("create_log", 302,
                                       "You are not a member of this group")
                   /\ log_entries' = log_entries
             /\ req[w].op = "get_timeline_data"
                => resp'[w] = Reply("get_timeline_data", 403, "Access denied")]_vars

\* a student was turned away from the page of a group while log entries exist
C11_Witness ==
    \E w \in Workers :
        /\ resp[w] = Reply("view_group", 302, "You are not a member of this group")
        /\ log_entries # <<>>

\* C12: when view_group, generate_report or get_timeline_data serves the data
\* of an existing group, the caller is the teacher who owns the group or holds
\* a Membership in it.
C12_ServedOnlyToOwnerOrMember ==
    [][\A w \in Workers :
          (/\ pc[w] = "handling"
           /\ req[w].op \in {"view_group", "generate_report", "get_timeline_data"}
           /\ req[w].group_id \in 1..Len(groups)
           /\ pc'[w] = "responding"
           /\ "data" \in DOMAIN resp'[w])
          => \/ groups[req[w].group_id].teacher_id = req[w].user
             \/ \E m \in 1..Len(members) :
                   /\ members[m].group_id = req[w].group_id
                   /\ members[m].student_id = req[w].user]_vars

\* C13: a posted create_log of a student without a Membership in the group it
\* names does not succeed and leaves the log_entries table as it was; and the
\* author of every LogEntry holds a Membership in the entry's group.
C13_LogAuthorIsMember ==
    /\ [](\A i \in 1..Len(log_entries) :
            \E m \in 1..Len(members) :
               /\ members[m].group_id = log_entries[i].group_id
               /\ members[m].student_id = log_entries[i].student_id)
    /\ [][\A w \in Workers :
             (/\ Handling(w, "create_log")
              /\ req[w].method = "POST"
              /\ users[req[w].user].role = "student"
              /\ \A m \in 1..Len(members) :
                    \/ members[m].group_id # req[w].group_id
                    \/ members[m].student_id # req[w].user
              /\ pc'[w] = "responding")
             => /\ log_entries' = log_entries
                /\ resp'[w] = Reply("create_log", 302,
                                    "You are not a member of this group")]_vars

\* a log entry was refused for want of a Membership while log entries exist
C13_Witness ==
    \E w \in Workers :
        /\ resp[w] = Reply("create_log", 302, "You are not a member of this group")
        /\ log_entries # <<>>

\* C14: add_feedback on an existing log entry by anyone but the teacher who
\* owns the entry's group is answered 403, with the empty string as body it is
\* answered 400 when that teacher sends it, and neither adds a Feedback row;
\* and every Feedback row was written by the owner of its log's group and has
\* a non-empty body.
C14_FeedbackOwnerNonEmpty ==
    /\ [](\A f \in 1..Len(feedbacks) :
            /\ groups[log_entries[feedbacks[f].log_id].group_id].teacher_id
                  = feedbacks[f].teacher_id
            /\ feedbacks[f].feedback \notin {Absent, ""})
    /\ [][\A w \in Workers :
             (/\ Handling(w, "add_feedback")
              /\ req[w].log_id \in 1..Len(log_entries)
              /\ pc'[w] = "responding")
             => LET owner == groups[log_entries[req[w].log_id].group_id].teacher_id
                IN /\ owner # req[w].user
                      => (resp'[w].code = 403 /\ feedbacks' = feedbacks)
                   /\ req[w].feedback = ""
                      => /\ feedbacks' = feedbacks
                         /\ owner = req[w].user => resp'[w].code = 400]_vars

\* an empty feedback was refused while a Feedback row exists
C14_Witness ==
    \E w \in Workers :
        /\ resp[w] = Reply("add_feedback", 400, "Feedback cannot be empty")
        /\ feedbacks # <<>>

\* C15: the event list get_timeline_data returns is sorted ascending by the
\* date of the events, log entries and assignment due dates alike: no event
\* comes before an event of an earlier date.
C15_TimelineSortedByDate ==
    \A w \in Workers :
        (resp[w].op = "get_timeline_data" /\ resp[w].code = 200)
        => \A k, l \in 1..Len(resp[w].data) :
              k < l => resp[w].data[k].start <= resp[w].data[l].start

\* C16: the description of every timeline event is the log body or the
\* assignment description it comes from when that text has at most 100
\* characters, and the first 100 characters of it followed by "...", 103
\* characters in all, when it has more; every log entry and assignment of
\* the group has its event.
C16_DescriptionTruncated ==
    [][\A w \in Workers :
          (/\ pc[w] = "handling"
           /\ req[w].op = "get_timeline_data"
           /\ pc'[w] = "responding"
           /\ resp'[w].code = 200)
          => /\ Len(resp'[w].data)
                  = Cardinality({i \in 1..Len(log_entries) :
                                    log_entries[i].group_id = req[w].group_id})
                    + Cardinality({a \in 1..Len(assignments) :
                                      assignments[a].group_id = req[w].group_id})
             /\ \A k \in 1..Len(resp'[w].data) :
                   LET ev == resp'[w].data[k]
                       text == IF ev.id[1] = "log"
                               THEN log_entries[ev.id[2]].content
                               ELSE assignments[ev.id[2]].description
                   IN /\ Len(text) <= 100 => ev.description = text
                      /\ Len(text) > 100
                         => /\ ev.description = SubSeq(text, 1, 100) \o "..."
                            /\ Len(ev.description) = 103]_vars

\* a timeline was served with a log entry cut to 103 characters and an
\* assignment whose description of exactly 100 characters is whole
C16_Witness ==
    \E w \in Workers :
        /\ resp[w].op = "get_timeline_data" /\ resp[w].code = 200
        /\ \E k, l \in 1..Len(resp[w].data) :
              /\ resp[w].data[k].className = "log-entry"
              /\ Len(resp[w].data[k].description) = 103
              /\ resp[w].data[l].className = "assignment"
              /\ resp[w].data[l].description = Hundred

\* C17: no step of any handler changes the role of an existing Account:
\* register adds a row with its role and leaves the others alone, and
\* update_profile keeps the role whatever its form carries.
C17_RoleNeverChanges ==
    [][/\ Len(users') >= Len(users)
       /\ \A i \in 1..Len(users) : users'[i].role = users[i].role]_vars

\* a student's profile update was committed and the account is still a student
C17_Witness ==
    \E w \in Workers :
        /\ resp[w] = Reply("update_profile", 302, "Profile updated successfully!")
        /\ \E i \in 1..Len(users) :
              users[i].email = "new@x.org" /\ users[i].role = "student"

\* C19: after a posted profile update that carries an email, committed or
\* rolled back, the picture path stored for the Account, when there is one,
\* names a file that is in the upload folder.
C19_AvatarFileExists ==
    [][\A w \in Workers :
          (/\ pc[w] = "handling"
           /\ req[w].op = "update_profile"
           /\ req[w].method = "POST"
           /\ req[w].email # Absent
           /\ pc'[w] = "responding")
          => users'[req[w].user].profile_picture \subseteq profiles']_vars

\* C18: with requests served one at a time, every assignment has at most as
\* many Submission rows as its group has Membership rows, and every Status
\* cell of a served report shows a submitted count that is at most the
\* member count.
C18_SubmissionsAtMostMembers ==
    /\ \A a \in 1..Len(assignments) :
          Cardinality({i \in 1..Len(submissions) : submissions[i].assignment_id = a})
              <= Cardinality({m \in 1..Len(members) :
                                 members[m].group_id = assignments[a].group_id})
    /\ \A w \in Workers :
          (resp[w].op = "generate_report" /\ resp[w].code = 200)
          => \A a \in DOMAIN resp[w].data.assignments :
                resp[w].data.assignments[a].submitted
                    <= resp[w].data.assignments[a].members

\* a report was served whose assignment every one of the two members submitted
C18_Witness ==
    \E w \in Workers :
        /\ resp[w].op = "generate_report" /\ resp[w].code = 200
        /\ \E a \in DOMAIN resp[w].data.assignments :
              /\ resp[w].data.assignments[a].submitted = 2
              /\ resp[w].data.assignments[a].members = 2

=============================================================================
